---- MODULE Spec2Model ----
(***************************************************************************)
(* State-machine model of the trading loop of AI_Program_okex:             *)
(*   main.py                   SimpleAITradingBot.run / run_cycle          *)
(*   core/trading_executor.py  TradingExecutor (confirmation gate, orders) *)
(*   core/position_manager.py  PositionManager.sync_database_with_positions*)
(*   core/order_sync.py        OrderSync.sync_filled_orders_from_api       *)
(*   data/database.py          TradeDatabase (the ledger)                  *)
(*   data/fetcher.py           DataFetcher (the venue client)              *)
(*                                                                         *)
(* run_cycle is single threaded; it is modelled step by step with a        *)
(* program counter pc.  The venue, the market-data feed and the decision   *)
(* source are the environment: their answers are chosen with \E.           *)
(*                                                                         *)
(* The specifications:                                                     *)
(*   Spec       the program as written.  sync_filled_orders_from_api has   *)
(*              no return statement, so main.py:215 compares None with 0,  *)
(*              which raises TypeError; the handler at main.py:325 ends    *)
(*              the cycle there.  Steps 5.2 .. 10 are never reached.       *)
(*   SpecCycle  the same steps, with the fill synchroniser handing its     *)
(*              local synced_count to the orchestrator, so that the steps  *)
(*              after main.py:215 run.  The gate, the reconciler and the   *)
(*              cadence arithmetic are checked here.                       *)
(*   SpecLedgerFaults  SpecCycle, and the reconciler may find the ledger   *)
(*              unreadable.                                                *)
(*   SpecShutdown  SpecCycle, and the operator may stop or interrupt the   *)
(*              loop.                                                      *)
(*   SpecPairing   the pairing of venue fills into round trips, on every   *)
(*              list of at most MaxFills fills.                            *)
(*   SpecSync   one call of the fill synchroniser, on every trades table   *)
(*              of at most MaxTrades OPEN rows and every venue answer.     *)
(***************************************************************************)
EXTENDS Integers, Sequences, FiniteSets, TLC

\* ------------------------------------------------------------------ bounds
MaxCycles == 4
MaxTrades == 2

\* --------------------------------------------------------------- constants
\* Python None for optional numbers (stop_loss, take_profit, return values).
NoneVal == -1
\* TRADING_CONFIG (config/settings.py) and the defaults of its .get() calls.
backoff_threshold == 3
backoff_max_skip == 1
default_max_skip == 8
\* a market price, a stop-loss and a take-profit level, a quantity
Price == 100
SL == 90
TP == 120
Amount == 1

Coins == {"BTC", "ETH"}
Sides == {"long", "short"}

\* A symbol string.  fmt "coin" is 'BTC', fmt "swap" is 'BTC/USDT:USDT'.
Sym(c, f) == [coin |-> c, fmt |-> f]

\* trading_executor.py:53-56 and main.py:295-296: keep the coin name only.
CleanSymbol(s) == Sym(s.coin, "coin")

\* trading_executor.py:59: f"{symbol_coin}/USDT:USDT"
SymbolFull(sc) == Sym(sc.coin, "swap")

\* position_manager.py:69 / trading_executor.py:261: .replace('/USDT:USDT','')
StripSwap(s) == Sym(s.coin, "coin")

VARIABLES
    cycle_count,            \* main.py:83
    consecutive_holds,      \* main.py:86
    skip_cycles,            \* main.py:87
    current_trade_id,       \* main.py:82   (0 is None)
    pending_open_decisions, \* main.py:90   dict coin -> {signal, cycle, decision}
    ledger,                 \* the trades table, row i has id i
    venue,                  \* coin -> "none" | "long" | "short": positions held
    config,                 \* TRADING_CONFIG values the loop reads
    pc,                     \* position inside run_cycle
    all_market_data,        \* set of coins whose data was fetched this cycle
    all_positions,          \* main.py:208, list of positions
    venue_ok,               \* the venue answered the position query (history)
    synced_count,           \* main.py:212
    fetched_orders,         \* what fetch_my_trades answered in the fill sync just run (history)
    decision,               \* main.py:260
    steps,                  \* steps run so far in the current cycle (history)
    issued,                 \* open orders sent to the venue this cycle (history)
    outcome,                \* how the last finished cycle ended (history)
    tick,                   \* counters and has_position the decision step met (history)
    last_eval,              \* signal and coin of the latest decision obtained (history)
    trades,                 \* fills fetch_my_trades returned for one symbol
    paired                  \* opening/closing fill pairs built from trades, and by whom

vars == <<cycle_count, consecutive_holds, skip_cycles, current_trade_id,
          pending_open_decisions, ledger, venue, config, pc, all_market_data,
          all_positions, venue_ok, synced_count, fetched_orders, decision, steps, issued,
          outcome, tick, last_eval, trades, paired>>

botVars == <<cycle_count, consecutive_holds, skip_cycles, current_trade_id,
             pending_open_decisions>>
localVars == <<all_market_data, all_positions, venue_ok, synced_count,
               fetched_orders>>
histVars == <<decision, tick, last_eval>>
pairVars == <<trades, paired>>

\* -------------------------------------------------------------- decisions
NoDecision == [signal |-> "HOLD", symbol |-> Sym("NONE", "coin"),
               stop_loss |-> NoneVal, take_profit |-> NoneVal]

\* What the decision source can hand to run_cycle (ai/trader.py:1120-1133):
\* entry signals for a coin in either spelling, HOLD with symbol NONE,
\* CLOSE for a coin, CLOSE_ALL with symbol ALL.  stop_loss and take_profit
\* are present in the dict and are None when the model left them out.
Decisions ==
    [signal : {"BUY", "SELL"}, symbol : {Sym(c, "coin") : c \in Coins},
     stop_loss : {SL}, take_profit : {TP}]
    \cup [signal : {"BUY", "SELL"}, symbol : {Sym(c, "coin") : c \in Coins},
          stop_loss : {NoneVal}, take_profit : {NoneVal}]
    \cup [signal : {"BUY"}, symbol : {Sym(c, "swap") : c \in Coins},
          stop_loss : {SL}, take_profit : {TP}]
    \cup [signal : {"CLOSE"}, symbol : {Sym(c, "coin") : c \in Coins},
          stop_loss : {NoneVal}, take_profit : {NoneVal}]
    \cup {NoDecision}
    \cup {[signal |-> "CLOSE_ALL", symbol |-> Sym("ALL", "coin"),
           stop_loss |-> NoneVal, take_profit |-> NoneVal]}

\* fetch_my_trades has answered nothing
NoFills == [c \in Coins |-> <<>>]

\* run_cycle returns: its local variables are gone (the decision and the
\* counters it met are kept as history until the next cycle begins).
Return ==
    /\ pc' = "idle"
    /\ all_market_data' = {}
    /\ all_positions' = <<>>
    /\ venue_ok' = TRUE
    /\ synced_count' = NoneVal
    /\ fetched_orders' = NoFills

\* no decision obtained yet
NoEval == [signal |-> "", coin |-> ""]

\* no pending record
NoPending == [signal |-> "", cycle |-> 0, decision |-> NoDecision]

NoTick == [holds |-> 0, skip |-> 0, has_position |-> FALSE]

\* An empty Python dict; a dict is a function on its set of keys.
EmptyDict == [k \in {} |-> NoDecision]

DictPut(d, k, v) == [x \in DOMAIN d \cup {k} |-> IF x = k THEN v ELSE d[x]]

DictDel(d, k) == [x \in DOMAIN d \ {k} |-> d[x]]

\* dict(row).get(key, default) on a row of the trades table
RowGet(row, key, default) == IF key \in DOMAIN row THEN row[key] ELSE default

\* ------------------------------------------------------------------ ledger
\* database.py:37-79: the columns of the trades table
TradesColumns == {"id", "symbol", "signal", "side", "entry_price", "exit_price",
                  "quantity", "leverage", "open_time", "close_time",
                  "holding_duration_seconds", "realized_pnl", "pnl_percent",
                  "entry_order_id", "exit_order_id", "stop_loss_price",
                  "take_profit_price", "ai_confidence", "ai_reason", "ai_think",
                  "market_data", "status", "notes", "created_at", "updated_at"}

\* database.py:264-287 get_open_trades: rows whose status is exactly 'OPEN'
get_open_trades(l) == {i \in 1..Len(l) : l[i].status = "OPEN"}

\* database.py:116-179 create_trade: insert a row with status OPEN
create_trade(l, symbol, signal, entry_price, quantity, ai_decision, now) ==
    Append(l, [symbol |-> symbol,
               signal |-> signal,
               side |-> IF signal = "BUY" THEN "long" ELSE "short",
               entry_price |-> entry_price,
               exit_price |-> NoneVal,
               quantity |-> quantity,
               open_time |-> now,
               close_time |-> NoneVal,
               realized_pnl |-> NoneVal,
               stop_loss_price |-> ai_decision.stop_loss,
               take_profit_price |-> ai_decision.take_profit,
               status |-> "OPEN",
               notes |-> ""])

\* close_trade toggling the status column instead of setting it
close_trade_FlipsStatus(l, trade_id, exit_price, realized_pnl, reason, now) ==
    IF trade_id \notin 1..Len(l) THEN l
    ELSE [l EXCEPT ![trade_id] =
            [@ EXCEPT !.exit_price = exit_price,
                      !.close_time = now,
                      !.realized_pnl = realized_pnl,
                      !.status = IF @ = "OPEN" THEN "CLOSED" ELSE "OPEN",
                      !.notes = reason]]

\* database.py:181-262 close_trade: no row -> nothing; else overwrite the
\* exit fields and set status CLOSED, whatever the row's status was.
close_trade(l, trade_id, exit_price, realized_pnl, reason, now) ==
    IF trade_id \notin 1..Len(l) THEN l
    ELSE [l EXCEPT ![trade_id] =
            [@ EXCEPT !.exit_price = exit_price,
                      !.close_time = now,
                      !.realized_pnl = realized_pnl,
                      !.status = "CLOSED",
                      !.notes = reason]]

\* ------------------------------------------------------------------- venue
\* The positions the venue reports, in any order (fetcher.py:395-436).
PositionLists ==
    LET held == {c \in Coins : venue[c] # "none"}
        P(c) == [symbol |-> Sym(c, "swap"), side |-> venue[c]]
    IN  IF held = {} THEN {<<>>}
        ELSE IF Cardinality(held) = 1
             THEN {<<P(CHOOSE c \in held : TRUE)>>}
             ELSE {<<P(a), P(b)>> : a \in held, b \in held} \ {<<P(c), P(c)>> : c \in held}

\* fetcher.py:382-442 get_all_positions: [] when the venue cannot be reached
get_all_positions(ok, order) == IF ok THEN order ELSE <<>>

\* The trades table is a file that outlives the process (database.py:14-29):
\* at start it is empty, or holds the row of a long position opened by an
\* earlier run and still held on the venue.
InitialLedgers ==
    {<<>>,
     create_trade(<<>>, Sym("BTC", "swap"), "BUY", Price, Amount,
                  [stop_loss |-> SL, take_profit |-> TP], 0)}

InitLoop ==
    /\ cycle_count = 0
    /\ consecutive_holds = 0
    /\ skip_cycles = 0
    /\ current_trade_id = 0
    /\ pending_open_decisions = EmptyDict
    /\ ledger \in InitialLedgers
    /\ venue = [c \in Coins |->
                  IF \E i \in get_open_trades(ledger) : ledger[i].symbol.coin = c
                  THEN "long" ELSE "none"]
    /\ config \in [backoff_enabled : {TRUE}, backoff_threshold : {backoff_threshold},
                   backoff_max_skip : {backoff_max_skip, default_max_skip}]
    /\ pc = "idle"
    /\ all_market_data = {}
    /\ all_positions = <<>>
    /\ venue_ok = TRUE
    /\ synced_count = NoneVal
    /\ fetched_orders = NoFills
    /\ decision = NoDecision
    /\ steps = <<>>
    /\ issued = <<>>
    /\ outcome = "none"
    /\ tick = NoTick
    /\ last_eval = NoEval

\* no fill list is being paired
NoPairs == [by |-> "", pairs |-> {}]

Init ==
    /\ InitLoop
    /\ trades = <<>>
    /\ paired = NoPairs

\* ------------------------------------------------------------- run_cycle
\* main.py:99-112: count the cycle; a pending skip ends the cycle at once.
BeginCycle ==
    /\ pc = "idle"
    /\ cycle_count < MaxCycles
    /\ cycle_count' = cycle_count + 1
    /\ steps' = <<>>
    /\ issued' = <<>>
    /\ decision' = NoDecision
    /\ tick' = NoTick
    /\ last_eval' = last_eval
    /\ IF skip_cycles > 0
       THEN /\ skip_cycles' = skip_cycles - 1
            /\ pc' = "idle"
            /\ outcome' = "skipped"
       ELSE /\ skip_cycles' = skip_cycles
            /\ pc' = "market"
            /\ outcome' = "running"
    /\ UNCHANGED <<consecutive_holds, current_trade_id, pending_open_decisions,
                   ledger, venue, config, pairVars, localVars>>

\* FetchMarketData where fetching no data ends the loop instead of the cycle
FetchMarketData_Fatal ==
    /\ pc = "market"
    /\ \E got \in {{}, Coins} :
         IF got = {}
         THEN /\ pc' = "stopped"
              /\ outcome' = "nodata"
              /\ UNCHANGED <<all_market_data, all_positions, venue_ok, synced_count,
                             fetched_orders>>
         ELSE /\ all_market_data' = got
              /\ pc' = "positions"
              /\ UNCHANGED <<all_positions, venue_ok, synced_count,
                             fetched_orders, outcome>>
    /\ steps' = Append(steps, "market")
    /\ UNCHANGED <<botVars, ledger, venue, config, pairVars, issued, histVars>>

\* main.py:114-171: fetch the market data of every configured symbol; when
\* none could be fetched the cycle returns.
FetchMarketData ==
    /\ pc = "market"
    /\ \E got \in {{}, Coins} :
         IF got = {}
         THEN Return /\ outcome' = "nodata"
         ELSE /\ all_market_data' = got
              /\ pc' = "positions"
              /\ UNCHANGED <<all_positions, venue_ok, synced_count,
                             fetched_orders, outcome>>
    /\ steps' = Append(steps, "market")
    /\ UNCHANGED <<botVars, ledger, venue, config, pairVars, issued, histVars>>

\* GetAllPositions with step 5.2 placed in front of step 5.1
GetAllPositions_ReconcileFirst ==
    /\ pc = "positions"
    /\ \E ok \in BOOLEAN, order \in PositionLists :
         /\ all_positions' = get_all_positions(ok, order)
         /\ venue_ok' = ok
    /\ pc' = "reconcile"
    /\ steps' = Append(steps, "positions")
    /\ UNCHANGED <<botVars, ledger, venue, config, pairVars, all_market_data, synced_count,
                   fetched_orders, issued, outcome, histVars>>

\* main.py:207-209: read the open positions from the venue.
GetAllPositions ==
    /\ pc = "positions"
    /\ \E ok \in BOOLEAN, order \in PositionLists :
         /\ all_positions' = get_all_positions(ok, order)
         /\ venue_ok' = ok
    /\ pc' = "fillsync"
    /\ steps' = Append(steps, "positions")
    /\ UNCHANGED <<botVars, ledger, venue, config, pairVars, all_market_data, synced_count,
                   fetched_orders, issued, outcome, histVars>>

\* ------------------------------------------------------- fill synchroniser
\* What fetch_my_trades returns for one symbol: executed orders, oldest first.
Orders == [side : {"buy", "sell"}, price : {Price}, amount : {Amount},
           timestamp : 1..MaxCycles]

\* order_sync.py:61-78: the first row of the open_trades snapshot that the
\* order closes: same symbol, a non-empty entry_time that lies before the
\* order, and the opposite direction.  0 when there is none.
MatchingTrade(l, open_trades, symbol, order) ==
    LET m == {i \in open_trades :
                /\ l[i].symbol = symbol
                /\ RowGet(l[i], "entry_time", NoneVal) # NoneVal
                /\ \/ l[i].side = "long" /\ order.side = "sell"
                   \/ l[i].side = "short" /\ order.side = "buy"
                /\ order.timestamp > RowGet(l[i], "entry_time", NoneVal)}
    IN  IF m = {} THEN 0 ELSE CHOOSE i \in m : \A j \in m : i <= j

\* SyncOrders reading and writing columns the table has (open_time for
\* entry_time, close_time for exit_time), so that a row is matched and updated
RECURSIVE SyncOrders_ColumnsRight(_, _, _, _, _)
SyncOrders_ColumnsRight(l, open_trades, symbol, orders, count) ==
    IF orders = <<>> THEN [ledger |-> l, count |-> count]
    ELSE LET o == Head(orders)
             m == {j \in open_trades :
                     /\ l[j].symbol = symbol
                     /\ \/ l[j].side = "long" /\ o.side = "sell"
                        \/ l[j].side = "short" /\ o.side = "buy"
                     /\ o.timestamp > l[j].open_time}
             i == IF m = {} THEN 0 ELSE CHOOSE x \in m : \A y \in m : x <= y
         IN  IF i = 0
             THEN SyncOrders_ColumnsRight(l, open_trades, symbol, Tail(orders), count)
             ELSE SyncOrders_ColumnsRight(
                      [l EXCEPT ![i] = [@ EXCEPT !.status = "closed",
                                                 !.exit_price = o.price,
                                                 !.close_time = o.timestamp,
                                                 !.realized_pnl =
                                                     IF l[i].side = "long"
                                                     THEN (o.price - l[i].entry_price) * o.amount
                                                     ELSE (l[i].entry_price - o.price) * o.amount]],
                      open_trades, symbol, Tail(orders), count + 1)

\* order_sync.py:54-107: apply the orders of one symbol, one after the other,
\* against the snapshot of open rows taken before the first of them.
RECURSIVE SyncOrders(_, _, _, _, _)
SyncOrders(l, open_trades, symbol, orders, count) ==
    IF orders = <<>> THEN [ledger |-> l, count |-> count]
    ELSE LET o == Head(orders)
             i == MatchingTrade(l, open_trades, symbol, o)
         IN  IF i = 0
             THEN SyncOrders(l, open_trades, symbol, Tail(orders), count)
             ELSE IF "exit_time" \notin TradesColumns
             THEN \* the UPDATE names a column the table lacks: sqlite raises,
                  \* the handler at order_sync.py:109 drops the symbol's orders
                  [ledger |-> l, count |-> count]
             ELSE SyncOrders([l EXCEPT ![i] =
                                [@ EXCEPT !.status = "closed",
                                          !.exit_price = o.price,
                                          !.realized_pnl =
                                              IF l[i].side = "long"
                                              THEN (o.price - l[i].entry_price) * o.amount
                                              ELSE (l[i].entry_price - o.price) * o.amount]],
                             open_trades, symbol, Tail(orders), count + 1)

\* What stands for fetch_my_trades raising for a symbol (order_sync.py:39-42).
FetchError == <<[side |-> "error", price |-> 0, amount |-> 0, timestamp |-> 0]>>

\* order_sync.py:36-111, one pass of the for loop: r holds the ledger, the
\* count and the symbols whose body ran to its end.  An exception leaves the
\* body through the handler at lines 109-111 and the loop goes on.
SyncSymbol(r, c, fills) ==
    IF fills[c] = FetchError THEN r
    ELSE LET x == SyncOrders(r.ledger, get_open_trades(r.ledger), Sym(c, "swap"),
                             fills[c], r.count)
         IN  [ledger |-> x.ledger, count |-> x.count,
              processed |-> r.processed \cup {c}]

\* sync_filled_orders_from_api with the handler of lines 116-118 only: the
\* first symbol that fails ends the loop
sync_filled_orders_from_api_AbortsOnError(l, fills) ==
    LET b == SyncSymbol([ledger |-> l, count |-> 0, processed |-> {}], "BTC", fills)
        e == IF fills["BTC"] = FetchError THEN b ELSE SyncSymbol(b, "ETH", fills)
    IN  [ledger |-> e.ledger, count |-> e.count, processed |-> e.processed,
         ret |-> NoneVal]

\* order_sync.py:26-118 sync_filled_orders_from_api.  fills gives the orders
\* of each symbol.  The function has no return statement: ret is None.
sync_filled_orders_from_api(l, fills) ==
    LET b == SyncSymbol([ledger |-> l, count |-> 0, processed |-> {}], "BTC", fills)
        e == SyncSymbol(b, "ETH", fills)
    IN  [ledger |-> e.ledger, count |-> e.count, processed |-> e.processed,
         ret |-> NoneVal]

\* What the venue answers for each symbol in one call of the loop: no fill or
\* one fill of the current cycle.
FillSets == [Coins -> {<<>>} \cup {<<o>> : o \in {x \in Orders : x.timestamp = cycle_count}}]

\* The same with two fills of a symbol in one answer and with errors.
FillAnswers ==
    LET now == {x \in Orders : x.timestamp = cycle_count}
    IN  [Coins -> {<<>>, FetchError} \cup {<<o>> : o \in now}
                  \cup {<<o, p>> : o \in now, p \in now}]

\* main.py:211-217: run the fill synchroniser and compare what it returned
\* with 0.  The comparison raises TypeError on None; the handler at
\* main.py:325 then ends the cycle.  handed is what the orchestrator receives:
\* the function's return value, or its local count; answers is what the venue
\* may answer.
FillSyncStep(handed, answers) ==
    /\ pc = "fillsync"
    /\ \E answered \in answers :
         LET r == sync_filled_orders_from_api(ledger, answered)
             got == IF handed = "ret" THEN r.ret ELSE r.count
         IN  /\ ledger' = r.ledger
             /\ IF got = NoneVal
                THEN Return /\ outcome' = "error"
                ELSE /\ synced_count' = got
                     /\ fetched_orders' = answered
                     /\ pc' = "reconcile"
                     /\ UNCHANGED <<all_market_data, all_positions, venue_ok, outcome>>
    /\ steps' = Append(steps, "fillsync")
    /\ UNCHANGED <<botVars, venue, config, pairVars, issued, histVars>>

FillSync == FillSyncStep("ret", FillSets)

FillSyncCounted == FillSyncStep("count", FillSets)

\* the synchroniser on every answer of the venue
FillSyncAnswers == FillSyncStep("count", FillAnswers)

\* -------------------------------------------------------------- reconciler
\* TradesToClose with the no-position branch closing nothing
TradesToClose_KeepsStale(l, current_position) ==
    IF current_position = <<>>
    THEN {}
    ELSE {i \in get_open_trades(l) : l[i].symbol # current_position[1].symbol}

\* position_manager.py:66 and 98-105: the open rows reconcile closes.  With
\* no current position, all of them; else those of another symbol.
TradesToClose(l, current_position) ==
    IF current_position = <<>>
    THEN get_open_trades(l)
    ELSE {i \in get_open_trades(l) : l[i].symbol # current_position[1].symbol}

\* CloseAll where the failed price lookup ends the reconcile call
CloseAll_AbortsOnPriceError(l, ids, reason, now) == l

\* CloseAll booking the row's notional value instead of the fallback 0
RECURSIVE CloseAll_BooksNotional(_, _, _, _)
CloseAll_BooksNotional(l, ids, reason, now) ==
    IF ids = {} THEN l
    ELSE LET i == CHOOSE x \in ids : \A y \in ids : x <= y
         IN  CloseAll_BooksNotional(
                 close_trade(l, i, RowGet(l[i], "entry_price", 0),
                             RowGet(l[i], "entry_price", 0) * RowGet(l[i], "quantity", 0),
                             reason, now),
                 ids \ {i}, reason, now)

\* position_manager.py:70-95 and 107-132: DataFetcher has no
\* get_current_price, the lookup raises and the fallback of lines 85-88 and
\* 122-125 is taken: exit price = entry price, realized_pnl = 0.
RECURSIVE CloseAll(_, _, _, _)
CloseAll(l, ids, reason, now) ==
    IF ids = {} THEN l
    ELSE LET i == CHOOSE x \in ids : \A y \in ids : x <= y
         IN  CloseAll(close_trade(l, i, RowGet(l[i], "entry_price", 0), 0, reason, now),
                      ids \ {i}, reason, now)

\* position_manager.py:50-134 sync_database_with_positions
sync_database_with_positions(l, current_position, now) ==
    CloseAll(l, TradesToClose(l, current_position),
             IF current_position = <<>> THEN "no position" ELSE "symbol mismatch", now)

\* position_manager.py:63, 96 and 134: every path out of
\* sync_database_with_positions is a bare return or the end of the body, so
\* the call yields None; list holds the returned items when it is not None.
sync_database_with_positions_return(l, current_position) ==
    [is_none |-> TRUE, list |-> <<>>]

\* main.py:209: all_positions[0] if all_positions else None (None is <<>>)
CurrentPosition(positions) == IF positions = <<>> THEN <<>> ELSE <<positions[1]>>

\* main.py:219-220: reconcile the ledger with the first position.
Reconcile ==
    /\ pc = "reconcile"
    /\ ledger' = sync_database_with_positions(ledger, CurrentPosition(all_positions),
                                             cycle_count)
    /\ pc' = "decide"
    /\ steps' = Append(steps, "reconcile")
    /\ fetched_orders' = NoFills
    /\ UNCHANGED <<botVars, venue, config, pairVars, all_market_data, all_positions, venue_ok,
                   synced_count, issued, outcome, histVars>>

\* position_manager.py:60 with 133-134: the trades table cannot be read,
\* get_open_trades raises, the handler prints a warning and the call returns;
\* run_cycle goes on at main.py:222.
ReconcileLedgerDown ==
    /\ pc = "reconcile"
    /\ pc' = "decide"
    /\ steps' = Append(steps, "ledger_error")
    /\ fetched_orders' = NoFills
    /\ UNCHANGED <<botVars, ledger, venue, config, pairVars, all_market_data, all_positions,
                   venue_ok, synced_count, issued, outcome, histVars>>

\* ------------------------------------------------------ cadence controller
RECURSIVE Pow2(_)
Pow2(n) == IF n <= 0 THEN 1 ELSE 2 * Pow2(n - 1)

Min(a, b) == IF a <= b THEN a ELSE b

\* BackoffSkip with the exponent one too small
BackoffSkip_OffByOne(holds, cfg) ==
    Min(Pow2(holds - cfg.backoff_threshold), cfg.backoff_max_skip)

\* BackoffSkip without the cap max_skip
BackoffSkip_NoCap(holds, cfg) ==
    Pow2(holds - cfg.backoff_threshold + 1)

\* main.py:281: min(2 ** (consecutive_holds - threshold + 1), max_skip)
BackoffSkip(holds, cfg) ==
    Min(Pow2(holds - cfg.backoff_threshold + 1), cfg.backoff_max_skip)

\* Cadence with the else branch leaving the counters alone
Cadence_NoReset(signal, has_position, holds, skip, cfg) ==
    IF signal = "HOLD" /\ ~has_position /\ cfg.backoff_enabled
    THEN IF holds + 1 >= cfg.backoff_threshold
         THEN <<holds + 1, BackoffSkip(holds + 1, cfg)>>
         ELSE <<holds + 1, skip>>
    ELSE <<holds, skip>>

\* main.py:266-289: the new <<consecutive_holds, skip_cycles>>
Cadence(signal, has_position, holds, skip, cfg) ==
    IF signal = "HOLD" /\ ~has_position /\ cfg.backoff_enabled
    THEN IF holds + 1 >= cfg.backoff_threshold
         THEN <<holds + 1, BackoffSkip(holds + 1, cfg)>>
         ELSE <<holds + 1, skip>>
    ELSE <<0, 0>>

\* ------------------------------------------------------- confirmation gate
\* _execute_with_confirmation opening on the first signal
ExecuteWithConfirmation_NoWait(pending, symbol_coin, signal, d, current_cycle) ==
    [act |-> "open", pending |-> DictDel(pending, symbol_coin)]

\* _execute_with_confirmation without the del of line 110
ExecuteWithConfirmation_KeepsPending(pending, symbol_coin, signal, d, current_cycle) ==
    IF symbol_coin \in DOMAIN pending
    THEN IF pending[symbol_coin].signal = signal
         THEN [act |-> "open", pending |-> pending]
         ELSE [act |-> "none",
               pending |-> DictPut(pending, symbol_coin,
                                   [signal |-> signal, cycle |-> current_cycle,
                                    decision |-> d])]
    ELSE IF d.stop_loss = NoneVal \/ d.take_profit = NoneVal
         THEN [act |-> "raise", pending |-> pending]
         ELSE [act |-> "none",
               pending |-> DictPut(pending, symbol_coin,
                                   [signal |-> signal, cycle |-> current_cycle,
                                    decision |-> d])]

\* _execute_with_confirmation dropping the pending record on a signal of the
\* other direction instead of replacing it
ExecuteWithConfirmation_DropsOnMismatch(pending, symbol_coin, signal, d, current_cycle) ==
    IF symbol_coin \in DOMAIN pending
    THEN IF pending[symbol_coin].signal = signal
         THEN [act |-> "open", pending |-> DictDel(pending, symbol_coin)]
         ELSE [act |-> "none", pending |-> DictDel(pending, symbol_coin)]
    ELSE IF d.stop_loss = NoneVal \/ d.take_profit = NoneVal
         THEN [act |-> "raise", pending |-> pending]
         ELSE [act |-> "none",
               pending |-> DictPut(pending, symbol_coin,
                                   [signal |-> signal, cycle |-> current_cycle,
                                    decision |-> d])]

\* _execute_with_confirmation emptying the whole pending map on confirmation
\* instead of deleting the symbol's record
ExecuteWithConfirmation_ClearsOthers(pending, symbol_coin, signal, d, current_cycle) ==
    IF symbol_coin \in DOMAIN pending
    THEN IF pending[symbol_coin].signal = signal
         THEN [act |-> "open", pending |-> EmptyDict]
         ELSE [act |-> "none",
               pending |-> DictPut(pending, symbol_coin,
                                   [signal |-> signal, cycle |-> current_cycle,
                                    decision |-> d])]
    ELSE IF d.stop_loss = NoneVal \/ d.take_profit = NoneVal
         THEN [act |-> "raise", pending |-> pending]
         ELSE [act |-> "none",
               pending |-> DictPut(pending, symbol_coin,
                                   [signal |-> signal, cycle |-> current_cycle,
                                    decision |-> d])]

\* trading_executor.py:80-151 _execute_with_confirmation.  act is "open"
\* when the open goes ahead, "none" when the call returns None, "raise" when
\* formatting a None stop_loss or take_profit with :.2f (lines 141-142)
\* raises TypeError before the pending record is stored.
ExecuteWithConfirmation(pending, symbol_coin, signal, d, current_cycle) ==
    IF symbol_coin \in DOMAIN pending
    THEN IF pending[symbol_coin].signal = signal
         THEN [act |-> "open", pending |-> DictDel(pending, symbol_coin)]
         ELSE [act |-> "none",
               pending |-> DictPut(pending, symbol_coin,
                                   [signal |-> signal, cycle |-> current_cycle,
                                    decision |-> d])]
    ELSE IF d.stop_loss = NoneVal \/ d.take_profit = NoneVal
         THEN [act |-> "raise", pending |-> pending]
         ELSE [act |-> "none",
               pending |-> DictPut(pending, symbol_coin,
                                   [signal |-> signal, cycle |-> current_cycle,
                                    decision |-> d])]

\* trading_executor.py:45-78 execute_trade: which branch the decision takes.
Dispatch(d) ==
    IF d.signal = "HOLD" \/ d.symbol.coin = "NONE" THEN "return"
    ELSE IF d.signal \in {"BUY", "SELL"} THEN "confirm"
    ELSE IF d.signal = "CLOSE" THEN "close"
    ELSE "return"

\* _execute_real_open handed the decision stored with the pending record
\* instead of the decision of the confirming cycle
RealOpen_PendingPayload(signal, symbol, d, current_price, accepted) ==
    LET stored == IF symbol.coin \in DOMAIN pending_open_decisions
                  THEN pending_open_decisions[symbol.coin].decision
                  ELSE d
    IN  /\ issued' = Append(issued, [symbol |-> symbol, signal |-> signal,
                                     decision |-> stored, accepted |-> accepted,
                                     pending |-> IF symbol.coin \in DOMAIN pending_open_decisions
                                                 THEN pending_open_decisions[symbol.coin]
                                                 ELSE NoPending,
                                     prev |-> last_eval])
        /\ IF accepted
           THEN /\ venue' = [venue EXCEPT ![symbol.coin] =
                               IF @ = "none"
                               THEN (IF signal = "BUY" THEN "long" ELSE "short") ELSE @]
                /\ ledger' = create_trade(ledger, symbol, signal, current_price, Amount,
                                          stored, cycle_count)
                /\ current_trade_id' = IF stored.stop_loss = NoneVal THEN 0
                                       ELSE Len(ledger) + 1
           ELSE /\ current_trade_id' = 0
                /\ UNCHANGED <<venue, ledger>>

\* trading_executor.py:392-491 _execute_real_open.  accepted: the venue took
\* the order.  A refused order raises before the ledger is touched.  After
\* create_trade, line 440 compares stop_loss with 0, which raises on None;
\* the handler at 487 then returns None although the row exists.
RealOpen(signal, symbol, d, current_price, accepted) ==
    /\ issued' = Append(issued, [symbol |-> symbol, signal |-> signal, decision |-> d,
                                 accepted |-> accepted,
                                 pending |-> IF symbol.coin \in DOMAIN pending_open_decisions
                                             THEN pending_open_decisions[symbol.coin]
                                             ELSE NoPending,
                                 prev |-> last_eval])
    /\ IF accepted
       THEN /\ venue' = [venue EXCEPT ![symbol.coin] =
                           IF @ = "none"
                           THEN (IF signal = "BUY" THEN "long" ELSE "short") ELSE @]
            /\ ledger' = create_trade(ledger, symbol, signal, current_price, Amount,
                                      d, cycle_count)
            /\ current_trade_id' = IF d.stop_loss = NoneVal THEN 0 ELSE Len(ledger) + 1
       ELSE /\ current_trade_id' = 0
            /\ UNCHANGED <<venue, ledger>>

\* the unrealized profit the venue reports for a position
UnrealizedPnl == 7

\* trading_executor.py:493-596 _execute_real_close.  found: the position
\* lookup succeeded; accepted: the venue took the closing order.
RealClose(symbol, current_price, trade_id, found, accepted) ==
    IF found /\ venue[symbol.coin] # "none" /\ accepted
    THEN /\ venue' = [venue EXCEPT ![symbol.coin] = "none"]
         /\ ledger' = IF trade_id # 0
                      THEN close_trade(ledger, trade_id, current_price, UnrealizedPnl,
                                       "ai close", cycle_count)
                      ELSE ledger
    ELSE UNCHANGED <<venue, ledger>>

\* ExecuteDecision where a decision that is not executed clears the pending map
ExecuteDecision_HoldDropsPending(d) ==
    LET symbol_coin == CleanSymbol(d.symbol)
        symbol_full == SymbolFull(symbol_coin)
        price == IF symbol_coin.coin \in all_market_data THEN Price ELSE 0
    IN  IF d.signal = "HOLD" \/ Dispatch(d) = "return"
        THEN /\ outcome' = "done"
             /\ pending_open_decisions' = EmptyDict
             /\ UNCHANGED <<current_trade_id, ledger, venue, issued>>
        ELSE IF Dispatch(d) = "confirm"
        THEN LET g == ExecuteWithConfirmation(pending_open_decisions,
                                              symbol_coin.coin, d.signal, d,
                                              cycle_count)
             IN  IF g.act = "raise"
                 THEN /\ outcome' = "error"
                      /\ UNCHANGED <<current_trade_id, pending_open_decisions,
                                     ledger, venue, issued>>
                 ELSE IF g.act = "none"
                 THEN /\ outcome' = "done"
                      /\ pending_open_decisions' = g.pending
                      /\ current_trade_id' = 0
                      /\ UNCHANGED <<ledger, venue, issued>>
                 ELSE /\ outcome' = "done"
                      /\ pending_open_decisions' = g.pending
                      /\ \E accepted \in BOOLEAN :
                           RealOpen(d.signal, symbol_full, d, price, accepted)
        ELSE /\ outcome' = "done"
             /\ current_trade_id' = 0
             /\ \E found \in BOOLEAN, accepted \in BOOLEAN :
                  RealClose(symbol_full, price, current_trade_id, found, accepted)
             /\ UNCHANGED <<pending_open_decisions, issued>>

\* main.py:291-309 with trading_executor.py:30-78 execute_trade: hand a
\* decision other than HOLD to the executor and take over its pending map.
\* An exception leaves through the handler at main.py:325.
ExecuteDecision(d) ==
    LET symbol_coin == CleanSymbol(d.symbol)
        symbol_full == SymbolFull(symbol_coin)
        price == IF symbol_coin.coin \in all_market_data THEN Price ELSE 0
    IN  IF d.signal = "HOLD" \/ Dispatch(d) = "return"
        THEN /\ outcome' = "done"
             /\ UNCHANGED <<current_trade_id, pending_open_decisions, ledger,
                            venue, issued>>
        ELSE IF Dispatch(d) = "confirm"
        THEN LET g == ExecuteWithConfirmation(pending_open_decisions,
                                              symbol_coin.coin, d.signal, d,
                                              cycle_count)
             IN  IF g.act = "raise"
                 THEN /\ outcome' = "error"
                      /\ UNCHANGED <<current_trade_id, pending_open_decisions,
                                     ledger, venue, issued>>
                 ELSE IF g.act = "none"
                 THEN /\ outcome' = "done"
                      /\ pending_open_decisions' = g.pending
                      /\ current_trade_id' = 0
                      /\ UNCHANGED <<ledger, venue, issued>>
                 ELSE /\ outcome' = "done"
                      /\ pending_open_decisions' = g.pending
                      /\ \E accepted \in BOOLEAN :
                           RealOpen(d.signal, symbol_full, d, price, accepted)
        ELSE /\ outcome' = "done"
             /\ current_trade_id' = 0
             /\ \E found \in BOOLEAN, accepted \in BOOLEAN :
                  RealClose(symbol_full, price, current_trade_id, found, accepted)
             /\ UNCHANGED <<pending_open_decisions, issued>>

\* main.py:251-321: obtain the decision, update the backoff counters, execute
\* the decision, return.  An entry signal is not drawn once the ledger holds
\* MaxTrades rows.
DecideAndExecute ==
    /\ pc = "decide"
    /\ \E d \in Decisions :
         /\ d.signal \in {"BUY", "SELL"} => Len(ledger) < MaxTrades
         /\ decision' = d
         /\ LET c == Cadence(d.signal, all_positions # <<>>, consecutive_holds,
                             skip_cycles, config)
            IN  consecutive_holds' = c[1] /\ skip_cycles' = c[2]
         /\ ExecuteDecision(d)
    /\ last_eval' = [signal |-> decision'.signal, coin |-> decision'.symbol.coin]
    /\ tick' = [holds |-> consecutive_holds, skip |-> skip_cycles,
                has_position |-> all_positions # <<>>]
    /\ steps' = steps \o <<"decide", "execute">>
                \o (IF Dispatch(decision') = "close" THEN <<"close">> ELSE <<>>)
    /\ Return
    /\ UNCHANGED <<cycle_count, config, pairVars>>

\* ------------------------------------------------------------- environment
\* Between cycles a position is closed on the venue without the loop: a
\* stop-loss or take-profit order triggers, or the account owner closes it.
VenueCloses ==
    /\ pc = "idle"
    /\ \E c \in Coins :
         /\ venue[c] # "none"
         /\ venue' = [venue EXCEPT ![c] = "none"]
    /\ UNCHANGED <<botVars, ledger, config, pairVars, pc, localVars, steps, issued, outcome,
                   histVars>>

\* Between cycles the account owner opens a position on the venue by hand.
VenueOpens ==
    /\ pc = "idle"
    /\ \E c \in Coins, s \in Sides :
         /\ venue[c] = "none"
         /\ venue' = [venue EXCEPT ![c] = s]
    /\ UNCHANGED <<botVars, ledger, config, pairVars, pc, localVars, steps, issued, outcome,
                   histVars>>

\* ---------------------------------------------------------------- shutdown
loopVars == <<botVars, ledger, venue, config, pc, localVars, steps, issued, outcome,
              histVars>>

\* main.py:366-380: the stop signal (KeyboardInterrupt) arrives while run()
\* sleeps between two cycles; the handler calls stop() and the loop is over.
Stop ==
    /\ pc = "idle"
    /\ pc' = "stopped"
    /\ UNCHANGED <<botVars, ledger, venue, config, pairVars, localVars, steps, issued,
                   outcome, histVars>>

\* main.py:323-324: the stop signal arrives inside run_cycle, before the step
\* at pc.  The handler re-raises it, the rest of the cycle is not run, run()
\* catches it at line 376 and calls stop().
Interrupt ==
    /\ pc \in {"market", "positions", "fillsync", "reconcile", "decide"}
    /\ pc' = "stopped"
    /\ UNCHANGED <<botVars, ledger, venue, config, pairVars, localVars, steps, issued,
                   outcome, histVars>>

\* trading_executor.py:412-427 with 487 and main.py:323-324: the stop signal
\* arrives in _execute_real_open after create_order returned and before
\* create_trade is called.  KeyboardInterrupt is no Exception, the handler at
\* line 487 lets it pass: the venue holds the position, the ledger has no row.
InterruptDuringOpen ==
    /\ pc = "decide"
    /\ \E d \in Decisions :
         LET symbol_coin == CleanSymbol(d.symbol)
             symbol_full == SymbolFull(symbol_coin)
             g == ExecuteWithConfirmation(pending_open_decisions, symbol_coin.coin,
                                          d.signal, d, cycle_count)
             c == Cadence(d.signal, all_positions # <<>>, consecutive_holds,
                          skip_cycles, config)
         IN  /\ Len(ledger) < MaxTrades
             /\ Dispatch(d) = "confirm"
             /\ g.act = "open"
             /\ decision' = d
             /\ consecutive_holds' = c[1]
             /\ skip_cycles' = c[2]
             /\ issued' = Append(issued,
                                 [symbol |-> symbol_full, signal |-> d.signal,
                                  decision |-> d, accepted |-> TRUE,
                                  pending |-> pending_open_decisions[symbol_coin.coin],
                                  prev |-> last_eval])
             /\ venue' = [venue EXCEPT ![symbol_coin.coin] =
                            IF @ = "none"
                            THEN (IF d.signal = "BUY" THEN "long" ELSE "short") ELSE @]
    /\ last_eval' = [signal |-> decision'.signal, coin |-> decision'.symbol.coin]
    /\ tick' = [holds |-> consecutive_holds, skip |-> skip_cycles,
                has_position |-> all_positions # <<>>]
    /\ steps' = steps \o <<"decide", "execute">>
    /\ pc' = "stopped"
    /\ UNCHANGED <<cycle_count, current_trade_id, pending_open_decisions, ledger,
                   config, pairVars, localVars, outcome>>

\* ------------------------------------------------------------ fill pairing
MaxFills == 4

\* timestamps of the fills
Times == 1..MaxFills

\* what fetch_my_trades may return for one symbol: n fills in any order, no
\* two with the same timestamp.  Of a fill the pairing reads open (fillPnl is
\* 0), posSide and timestamp.
FillListsOfLen(n) ==
    {[i \in 1..n |-> [open |-> a[i][1], posSide |-> a[i][2], timestamp |-> t[i]]] :
        t \in {f \in [1..n -> Times] : \A x \in 1..n, y \in 1..n : f[x] = f[y] => x = y},
        a \in [1..n -> BOOLEAN \X Sides]}

\* put x behind the fills of s that are not later than x (s is sorted)
InsertFill(s, x) ==
    LET k == Cardinality({i \in 1..Len(s) : s[i].timestamp <= x.timestamp})
    IN  SubSeq(s, 1, k) \o <<x>> \o SubSeq(s, k + 1, Len(s))

\* init_from_api.py:45: list.sort by timestamp, a stable sort
RECURSIVE SortByTimestamp(_)
SortByTimestamp(s) ==
    IF s = <<>> THEN <<>>
    ELSE InsertFill(SortByTimestamp(SubSeq(s, 1, Len(s) - 1)), s[Len(s)])

\* init_from_api.py:48-118: walk the sorted fills; open_trades keeps one
\* opening fill per posSide (0: none), a later opening fill replaces it; a
\* closing fill is paired with the kept one, which is then deleted.
RECURSIVE PairFills(_, _, _, _)
PairFills(s, i, open_trades, pairs) ==
    IF i > Len(s) THEN pairs
    ELSE IF s[i].open
    THEN PairFills(s, i + 1, [open_trades EXCEPT ![s[i].posSide] = i], pairs)
    ELSE IF open_trades[s[i].posSide] # 0
    THEN PairFills(s, i + 1, [open_trades EXCEPT ![s[i].posSide] = 0],
                   pairs \cup {<<open_trades[s[i].posSide], i>>})
    ELSE PairFills(s, i + 1, open_trades, pairs)

\* init_from_api.py:44-118 init_mcp_from_okx_trades, for one symbol: the
\* pairs <<opening fill, closing fill>> recorded, as places in the sorted list.
init_mcp_from_okx_trades(s) ==
    PairFills(SortByTimestamp(s), 1, [p \in Sides |-> 0], {})

\* trader.py:1410-1442: every closing fill takes the last opening fill of the
\* list with its posSide and an earlier timestamp; nothing records that an
\* opening fill was taken.
PairClosingFills(s) ==
    {<<o, c>> \in (1..Len(s)) \X (1..Len(s)) :
        /\ ~s[c].open
        /\ LET cand == {i \in 1..Len(s) : /\ s[i].open
                                          /\ s[i].posSide = s[c].posSide
                                          /\ s[i].timestamp < s[c].timestamp}
           IN  cand # {} /\ o = CHOOSE i \in cand : \A j \in cand : j <= i}

\* trader.py:1390: the module utils.data_fetcher is not in the package
utils_data_fetcher == FALSE

\* trader.py:1382-1480 _fetch_recent_trades_from_api: the import at line 1390
\* raises, the handler at 1479 returns the empty list.
fetch_recent_trades_from_api(s) ==
    IF utils_data_fetcher THEN PairClosingFills(s) ELSE {}

InitPairing ==
    /\ InitLoop
    /\ ledger = <<>>
    /\ config.backoff_max_skip = backoff_max_skip
    /\ \E n \in 0..MaxFills : trades \in FillListsOfLen(n)
    /\ paired = NoPairs

\* The memory initialiser rebuilds the closed trades from the fills.
InitMcpFromOkxTrades ==
    /\ paired.by = ""
    /\ paired' = [by |-> "init_mcp_from_okx_trades",
                  pairs |-> init_mcp_from_okx_trades(trades)]
    /\ UNCHANGED <<loopVars, trades>>

\* The prompt builder rebuilds the closed trades from the fills.
FetchRecentTradesFromApi ==
    /\ paired.by = ""
    /\ paired' = [by |-> "_fetch_recent_trades_from_api",
                  pairs |-> fetch_recent_trades_from_api(trades)]
    /\ UNCHANGED <<loopVars, trades>>

\* --------------------------------------------------------- specifications
\* The program as written: every un-skipped cycle ends at main.py:215.
Next ==
    \/ BeginCycle
    \/ FetchMarketData
    \/ GetAllPositions
    \/ FillSync
    \/ VenueCloses
    \/ VenueOpens

Spec == Init /\ [][Next]_vars

\* The cycle with the synchroniser's count handed to the orchestrator.
NextCycle ==
    \/ BeginCycle
    \/ FetchMarketData
    \/ GetAllPositions
    \/ FillSyncCounted
    \/ Reconcile
    \/ DecideAndExecute
    \/ VenueCloses

SpecCycle == Init /\ [][NextCycle]_vars

\* The same cycle with a trades table that may be unreadable at reconcile.
NextLedgerFaults ==
    \/ BeginCycle
    \/ FetchMarketData
    \/ GetAllPositions
    \/ FillSyncCounted
    \/ Reconcile
    \/ ReconcileLedgerDown
    \/ DecideAndExecute
    \/ VenueCloses

SpecLedgerFaults == Init /\ [][NextLedgerFaults]_vars

\* The same cycle with the stop signal arriving at any moment.
NextShutdown ==
    \/ BeginCycle
    \/ FetchMarketData
    \/ GetAllPositions
    \/ FillSyncCounted
    \/ Reconcile
    \/ DecideAndExecute
    \/ VenueCloses
    \/ Stop
    \/ Interrupt
    \/ InterruptDuringOpen

SpecShutdown == Init /\ [][NextShutdown]_vars

\* The two reconstructions of closed trades, applied to every list of fills.
NextPairing ==
    \/ InitMcpFromOkxTrades
    \/ FetchRecentTradesFromApi

SpecPairing == InitPairing /\ [][NextPairing]_vars

\* a row as create_trade wrote it in an earlier run
EarlierRows ==
    {<<Sym(c, "swap"), sig>> : c \in Coins, sig \in {"BUY", "SELL"}}

\* the trades tables of at most n OPEN rows
RECURSIVE LedgersOfLen(_)
LedgersOfLen(n) ==
    IF n = 0 THEN {<<>>}
    ELSE LET shorter == LedgersOfLen(n - 1)
         IN  shorter \cup
             {create_trade(l, r[1], r[2], Price, Amount,
                           [stop_loss |-> SL, take_profit |-> TP], 0) :
                l \in {x \in shorter : Len(x) = n - 1}, r \in EarlierRows}

\* The loop at the fill synchronisation of its first cycle, over any trades
\* table an earlier run left; the position query of main.py:208 has failed.
InitSync ==
    /\ cycle_count = 1
    /\ consecutive_holds = 0
    /\ skip_cycles = 0
    /\ current_trade_id = 0
    /\ pending_open_decisions = EmptyDict
    /\ ledger \in LedgersOfLen(MaxTrades)
    /\ venue = [c \in Coins |->
                  IF \E i \in get_open_trades(ledger) : ledger[i].symbol.coin = c
                  THEN (CHOOSE sd \in Sides :
                          \E i \in get_open_trades(ledger) :
                            ledger[i].symbol.coin = c /\ ledger[i].side = sd)
                  ELSE "none"]
    /\ config = [backoff_enabled |-> TRUE, backoff_threshold |-> backoff_threshold,
                 backoff_max_skip |-> backoff_max_skip]
    /\ pc = "fillsync"
    /\ all_market_data = Coins
    /\ all_positions = <<>>
    /\ venue_ok = FALSE
    /\ synced_count = NoneVal
    /\ fetched_orders = NoFills
    /\ decision = NoDecision
    /\ steps = <<"market", "positions">>
    /\ issued = <<>>
    /\ outcome = "running"
    /\ tick = NoTick
    /\ last_eval = NoEval
    /\ trades = <<>>
    /\ paired = NoPairs

NextSync == FillSyncAnswers

\* One call of the fill synchroniser on every ledger and every answer.
SpecSync == InitSync /\ [][NextSync]_vars

\* ------------------------------------------------------------------ claims
Ran(step) == \E k \in 1..Len(steps) : steps[k] = step

OpenRows(c) == {i \in 1..Len(ledger) : ledger[i].status = "OPEN" /\ ledger[i].symbol.coin = c}

EntrySignals == {"BUY", "SELL"}

\* the decision step is taken with an entry signal for coin c
EntryStep(c) ==
    /\ pc = "decide"
    /\ pc' = "idle"
    /\ decision'.signal \in EntrySignals
    /\ decision'.symbol.coin = c

\* C1: in every reachable state the ledger holds at most one row with status
\* OPEN per symbol.
C1_AtMostOneOpenPerSymbol == \A c \in Coins : Cardinality(OpenRows(c)) <= 1

\* C2: every open order sent in a cycle had, when it was sent, a pending
\* record for its symbol with the same direction, stored in an earlier cycle.
C2_OpenOnlyAfterPending ==
    \A k \in 1..Len(issued) :
        /\ issued[k].pending # NoPending
        /\ issued[k].pending.signal = issued[k].signal
        /\ issued[k].pending.cycle < cycle_count

C2_Witness ==
    /\ issued # <<>>
    /\ issued[1].accepted
    /\ \E i \in 1..Len(ledger) : ledger[i].open_time = cycle_count

\* C3: an open order needs the same entry signal in two consecutive
\* evaluations, so none is sent by an evaluation that follows a HOLD: after
\* BUY, HOLD the next BUY sends no order.
C3_TwoConsecutiveSignals ==
    \A k \in 1..Len(issued) : issued[k].prev.signal # "HOLD"

\* C4: a pending record of direction D met by an entry signal of direction D
\* for its symbol sends exactly one open order in that cycle and removes the
\* pending record.
C4_ConfirmIssuesOneOrder ==
    [][\A c \in Coins :
         (/\ EntryStep(c)
          /\ c \in DOMAIN pending_open_decisions
          /\ pending_open_decisions[c].signal = decision'.signal)
         => /\ Len(issued') = 1
            /\ issued'[1].symbol.coin = c
            /\ issued'[1].signal = decision'.signal
            /\ c \notin DOMAIN pending_open_decisions']_vars

C4_Witness ==
    /\ cycle_count = 2
    /\ pc = "idle"
    /\ Len(issued) = 1
    /\ issued[1].signal = "BUY"
    /\ issued[1].pending.cycle = 1
    /\ issued[1].symbol.coin \notin DOMAIN pending_open_decisions

\* C5: an entry signal for a symbol without a pending record stores a pending
\* record with that signal and the current cycle number, sends no order and
\* leaves the ledger unchanged.
C5_FirstSignalStoresPending ==
    [][\A c \in Coins :
         (EntryStep(c) /\ c \notin DOMAIN pending_open_decisions)
         => /\ c \in DOMAIN pending_open_decisions'
            /\ pending_open_decisions'[c].signal = decision'.signal
            /\ pending_open_decisions'[c].cycle = cycle_count
            /\ issued' = <<>>
            /\ ledger' = ledger]_vars

\* C6: when the venue did not answer the position query, the reconcile step
\* of that cycle closes no ledger row.
C6_FailedFetchSkipsReconcile ==
    [][(pc = "reconcile" /\ ~venue_ok) => ledger' = ledger]_vars

\* C7: after reconcile every row that was OPEN and whose symbol is not among
\* the venue positions is CLOSED; with no venue position every OPEN row is.
C7_ReconcileClosesUnmatched ==
    [][(pc = "reconcile" /\ pc' = "decide")
       => \A i \in 1..Len(ledger) :
            (/\ ledger[i].status = "OPEN"
             /\ ~\E k \in 1..Len(all_positions) :
                   all_positions[k].symbol = ledger[i].symbol)
            => ledger'[i].status = "CLOSED"]_vars

C7_Witness ==
    /\ pc = "decide"
    /\ \E i \in 1..Len(ledger) :
         /\ ledger[i].status = "CLOSED"
         /\ ledger[i].close_time = cycle_count
         /\ ledger[i].notes = "no position"

\* C8: a cycle the backoff skips still runs position reconciliation and fill
\* synchronisation.
C8_SkippedCycleStillSyncs ==
    (pc = "idle" /\ outcome = "skipped") => (Ran("reconcile") /\ Ran("fillsync"))

\* C9: a HOLD decision without an open position, backoff enabled, adds one to
\* consecutive_holds and sets the skip count to
\* min(2^(consecutive_holds - threshold + 1), max_skip) from the threshold on,
\* 0 below it; threshold 3 and max_skip 8 give 2, 4, 8, 8 for 3, 4, 5, 6.
C9_HoldBackoff ==
    [][(/\ pc = "decide"
        /\ pc' = "idle"
        /\ decision'.signal = "HOLD"
        /\ all_positions = <<>>
        /\ config.backoff_enabled)
       => /\ consecutive_holds' = consecutive_holds + 1
          /\ skip_cycles' =
               IF consecutive_holds' >= config.backoff_threshold
               THEN Min(Pow2(consecutive_holds' - config.backoff_threshold + 1),
                        config.backoff_max_skip)
               ELSE 0
          /\ LET c == [backoff_enabled |-> TRUE, backoff_threshold |-> 3,
                       backoff_max_skip |-> 8]
             IN  <<BackoffSkip(3, c), BackoffSkip(4, c), BackoffSkip(5, c),
                   BackoffSkip(6, c)>> = <<2, 4, 8, 8>>]_vars

C9_Witness ==
    /\ pc = "idle"
    /\ outcome = "done"
    /\ decision.signal = "HOLD"
    /\ ~tick.has_position
    /\ tick.holds = 2
    /\ consecutive_holds = 3
    /\ skip_cycles = 2

\* C10: a decision other than HOLD, or any decision while a position is open,
\* leaves consecutive_holds = 0 and the skip count = 0.
C10_ResetOnSignalOrPosition ==
    [][(/\ pc = "decide"
        /\ pc' = "idle"
        /\ (decision'.signal # "HOLD" \/ all_positions # <<>>))
       => (consecutive_holds' = 0 /\ skip_cycles' = 0)]_vars

C10_Witness ==
    /\ pc = "idle"
    /\ tick.holds > 0
    /\ (decision.signal # "HOLD" \/ tick.has_position)
    /\ consecutive_holds = 0
    /\ skip_cycles = 0

IsPrefix(s, t) == Len(s) <= Len(t) /\ s = SubSeq(t, 1, Len(s))

\* C11: a CLOSE or CLOSE_ALL decision reaches close execution in the cycle
\* that obtained it, and the pending map is neither read for it nor changed.
C11_ClosesDispatched ==
    [][(/\ pc = "decide"
        /\ pc' = "idle"
        /\ decision'.signal \in {"CLOSE", "CLOSE_ALL"})
       => /\ \E k \in 1..Len(steps') : steps'[k] = "close"
          /\ pending_open_decisions' = pending_open_decisions]_vars

\* C12 as stated: the steps of a cycle run in the order position
\* reconciliation, fill synchronisation, decision, execution.
C12_ReconcileThenFillSync ==
    IsPrefix(steps, <<"market", "positions", "reconcile", "fillsync", "decide",
                      "execute", "close">>)

\* C12 as amended: the steps of a cycle that run do so in the order fill
\* synchronisation, position reconciliation, decision, execution; position
\* reconciliation never runs before fill synchronisation in the same cycle.
C12_FillSyncThenReconcile ==
    IsPrefix(steps, <<"market", "positions", "fillsync", "reconcile", "decide",
                      "execute", "close">>)

C12_Witness ==
    /\ pc = "idle"
    /\ outcome = "done"
    /\ issued # <<>>
    /\ steps = <<"market", "positions", "fillsync", "reconcile", "decide", "execute">>

\* C13: the fill synchroniser hands back the number of ledger rows it changed,
\* so the comparison with 0 is defined and the cycle goes on to reconcile.
C13_SyncReturnsCount ==
    [][pc = "fillsync"
       => /\ pc' = "reconcile"
          /\ synced_count' =
               Cardinality({i \in 1..Len(ledger) : ledger'[i] # ledger[i]})]_vars

\* the fill sync step has just run and the cycle went on
FillSyncRan == pc = "fillsync" /\ pc' = "reconcile"

\* order o is a fill that closes what row r records: the row's symbol, the
\* opposite direction, executed after the row was opened
ClosingFillFor(o, r, c) ==
    /\ r.symbol = Sym(c, "swap")
    /\ \/ r.side = "long" /\ o.side = "sell"
       \/ r.side = "short" /\ o.side = "buy"
    /\ r.open_time < o.timestamp

\* C14: the fill synchroniser run a second time on the same fills leaves the
\* ledger as the first run left it and changes no row.
C14_SyncTwiceSameLedger ==
    [][FillSyncRan
       => LET again == sync_filled_orders_from_api(ledger', fetched_orders')
          IN  again.ledger = ledger' /\ again.count = 0]_vars

C14_Witness ==
    /\ pc = "reconcile"
    /\ \E c \in Coins, i \in 1..Len(ledger) :
         /\ fetched_orders[c] # <<>>
         /\ ledger[i].status = "OPEN"
         /\ ClosingFillFor(fetched_orders[c][1], ledger[i], c)

\* C15: a closing fill for a symbol whose OPEN row has the matching side and
\* was opened before the fill leaves that row CLOSED, with the fill's price as
\* exit price and the fill's time as close time.
C15_ClosingFillClosesRow ==
    [][FillSyncRan
       => \A c \in Coins, i \in 1..Len(ledger) :
            (/\ fetched_orders'[c] # <<>>
             /\ ledger[i].status = "OPEN"
             /\ ClosingFillFor(fetched_orders'[c][1], ledger[i], c))
            => /\ ledger'[i].status = "CLOSED"
               /\ ledger'[i].exit_price = fetched_orders'[c][1].price
               /\ ledger'[i].close_time = fetched_orders'[c][1].timestamp]_vars

\* C16: a closing fill that matches no OPEN row makes the fill synchroniser
\* insert a new CLOSED row for the fill's symbol.
C16_UnmatchedFillInserted ==
    [][FillSyncRan
       => \A c \in Coins :
            (/\ fetched_orders'[c] # <<>>
             /\ ~\E i \in 1..Len(ledger) :
                   /\ ledger[i].status = "OPEN"
                   /\ ClosingFillFor(fetched_orders'[c][1], ledger[i], c))
            => \E j \in (Len(ledger) + 1)..Len(ledger') :
                 /\ ledger'[j].status = "CLOSED"
                 /\ ledger'[j].symbol = Sym(c, "swap")]_vars

\* the reconcile step has just run
ReconcileRan == pc = "reconcile" /\ pc' = "decide"

\* the rows the reconcile step just closed
ClosedByReconcile ==
    {i \in 1..Len(ledger) : ledger[i].status = "OPEN" /\ ledger'[i].status = "CLOSED"}

\* the OPEN rows the venue's first position does not cover
Stale ==
    {i \in 1..Len(ledger) :
        /\ ledger[i].status = "OPEN"
        /\ (all_positions = <<>> \/ ledger[i].symbol # all_positions[1].symbol)}

\* C17: reconcile returns the list of the rows it closed in the call, one
\* entry per row moved from OPEN to CLOSED, the empty list when it closed none.
C17_ReconcileReturnsClosed ==
    [][ReconcileRan
       => LET r == sync_database_with_positions_return(ledger,
                                                       CurrentPosition(all_positions))
          IN  /\ ~r.is_none
              /\ Len(r.list) = Cardinality(ClosedByReconcile)
              /\ {r.list[k] : k \in 1..Len(r.list)} = ClosedByReconcile]_vars

\* C18: the price lookup fails for every row reconcile closes; each such row
\* is still closed, at exit price = entry price, the other stale rows are
\* closed too, and the cycle goes on to the decision.
C18_PriceFailureFallsBack ==
    [][pc = "reconcile"
       => /\ pc' = "decide"
          /\ \A i \in Stale :
               /\ ledger'[i].status = "CLOSED"
               /\ ledger'[i].exit_price = ledger[i].entry_price]_vars

C18_Witness ==
    /\ pc = "idle"
    /\ outcome = "done"
    /\ Cardinality({i \in 1..Len(ledger) :
                      /\ ledger[i].status = "CLOSED"
                      /\ ledger[i].close_time = cycle_count
                      /\ ledger[i].notes = "no position"
                      /\ ledger[i].exit_price = ledger[i].entry_price}) = 2

\* C19: a row closed by reconcile at exit price p has realized_pnl
\* (p - entry_price) * quantity when long, (entry_price - p) * quantity when
\* short, with the quantity stored in the row.
C19_ReconcilePnl ==
    [][ReconcileRan
       => \A i \in ClosedByReconcile :
            ledger'[i].realized_pnl =
                IF ledger[i].side = "long"
                THEN (ledger'[i].exit_price - ledger[i].entry_price) * ledger[i].quantity
                ELSE (ledger[i].entry_price - ledger'[i].exit_price) * ledger[i].quantity]_vars

C19_Witness ==
    /\ pc = "decide"
    /\ \E i \in 1..Len(ledger) :
         /\ ledger[i].status = "CLOSED"
         /\ ledger[i].close_time = cycle_count
         /\ ledger[i].side = "short"
         /\ ledger[i].quantity > 0
         /\ ledger[i].realized_pnl = 0

\* C20: once the trades table could not be read in a cycle, no later step
\* (decision, confirmation, execution) runs in that cycle.
C20_LedgerFailureAborts ==
    Ran("ledger_error") => ~Ran("decide")

\* C21: when the stop signal arrives while a cycle is in flight, that cycle
\* runs to its end before the loop exits; the loop never exits between an
\* order the venue took and the ledger row that records it.
C21_ShutdownFinishesCycle ==
    pc = "stopped"
    => /\ outcome # "running"
       /\ \A k \in 1..Len(issued) :
            issued[k].accepted
            => \E i \in 1..Len(ledger) :
                 /\ ledger[i].symbol = issued[k].symbol
                 /\ ledger[i].open_time = cycle_count

\* C22: a cycle whose decision is HOLD leaves the pending map as it was: no
\* record is created, changed or deleted.
C22_HoldKeepsPending ==
    [][(pc = "decide" /\ pc' = "idle" /\ decision'.signal = "HOLD")
       => pending_open_decisions' = pending_open_decisions]_vars

C22_Witness ==
    /\ pc = "idle"
    /\ outcome = "done"
    /\ decision.signal = "HOLD"
    /\ DOMAIN pending_open_decisions # {}

\* C23: an entry signal for a symbol whose pending record has the other
\* direction replaces the record by one with the new direction and the
\* current cycle; the symbol stays pending and no open order is issued.
C23_OppositeSignalReplacesPending ==
    [][\A c \in Coins :
         (/\ EntryStep(c)
          /\ c \in DOMAIN pending_open_decisions
          /\ pending_open_decisions[c].signal # decision'.signal)
         => /\ c \in DOMAIN pending_open_decisions'
            /\ pending_open_decisions'[c].signal = decision'.signal
            /\ pending_open_decisions'[c].cycle = cycle_count
            /\ issued' = <<>>
            /\ ledger' = ledger
            /\ venue' = venue]_vars

\* a record holding a decision without stop loss can only come from a
\* replacement: as the first signal such a decision raises before it is stored
C23_Witness ==
    /\ pc = "idle"
    /\ issued = <<>>
    /\ \E c \in DOMAIN pending_open_decisions :
         /\ pending_open_decisions[c].decision.stop_loss = NoneVal
         /\ pending_open_decisions[c].signal = decision.signal
         /\ pending_open_decisions[c].cycle = cycle_count

\* C24: at the end of every cycle a symbol has a pending record exactly when
\* an entry signal for it was seen once and neither confirmed nor replaced
\* since: an entry signal leaves a record unless it confirms the record of the
\* same direction, every other decision leaves the symbol as it was.
C24_PendingIffObservedOnce ==
    [][(pc = "decide" /\ pc' = "idle")
       => \A c \in Coins :
            (c \in DOMAIN pending_open_decisions')
            <=> IF EntryStep(c)
                THEN ~(/\ c \in DOMAIN pending_open_decisions
                       /\ pending_open_decisions[c].signal = decision'.signal)
                ELSE c \in DOMAIN pending_open_decisions]_vars

\* C25: a ledger row with status CLOSED never has status OPEN afterwards.
C25_ClosedStaysClosed ==
    [][\A i \in 1..Len(ledger) :
         ledger[i].status = "CLOSED" => ledger'[i].status # "OPEN"]_vars

\* the symbol of a closed row was opened again: a new row, the old one CLOSED
C25_Witness ==
    \E i \in 1..Len(ledger), j \in 1..Len(ledger) :
      /\ i < j
      /\ ledger[i].symbol = ledger[j].symbol
      /\ ledger[i].status = "CLOSED"
      /\ ledger[j].status = "OPEN"
      /\ ledger[i].close_time < ledger[j].open_time

\* C26: the status of every ledger row is OPEN or CLOSED in every reachable
\* state; no operation, the fill synchroniser included, leaves another value.
C26_StatusOpenOrClosed ==
    \A i \in 1..Len(ledger) : ledger[i].status \in {"OPEN", "CLOSED"}

\* the fill synchroniser has processed a closing fill for an OPEN row, next
\* to a row that reconcile closed
C26_Witness ==
    /\ pc = "reconcile"
    /\ \E c \in Coins, i \in 1..Len(ledger), j \in 1..Len(ledger) :
         /\ fetched_orders[c] # <<>>
         /\ ledger[i].status = "OPEN"
         /\ ClosingFillFor(fetched_orders[c][1], ledger[i], c)
         /\ ledger[j].status = "CLOSED"

\* the positions inside run_cycle and between two cycles
CyclePcs == {"idle", "market", "positions", "fillsync", "reconcile", "decide"}

\* the venue failed in the current cycle: no market data, no answer to the
\* position query, or a refused order
VenueFailed ==
    \/ outcome = "nodata"
    \/ ~venue_ok
    \/ \E k \in 1..Len(issued) : ~issued[k].accepted

\* C27: a failure of the venue or of the price source never ends the loop:
\* the cycle it occurs in goes on or returns, and the loop is ready to begin
\* the next cycle.
C27_VenueFailureKeepsLoop ==
    VenueFailed
    => /\ pc \in CyclePcs
       /\ (pc = "idle" /\ cycle_count < MaxCycles) => ENABLED BeginCycle

\* the cycle after one that fetched no market data has begun
C27_Witness ==
    /\ cycle_count = 2
    /\ pc = "market"
    /\ last_eval = NoEval

\* the opening fills of the posSide of closing fill c that precede it in the
\* sorted list s and that no earlier closing fill was paired with
Unmatched(s, pairs, c) ==
    {o \in 1..(c - 1) :
        /\ s[o].open
        /\ s[o].posSide = s[c].posSide
        /\ ~\E c2 \in 1..(c - 1) : <<o, c2>> \in pairs}

\* C28: a closing fill preceded by unmatched opening fills of its side is
\* paired with the most recent of them, and no opening fill is paired with
\* two closing fills.
C28_LatestUnmatchedOpeningFill ==
    paired.by # ""
    => LET s == SortByTimestamp(trades)
       IN  /\ \A c \in 1..Len(s) :
                (~s[c].open /\ Unmatched(s, paired.pairs, c) # {})
                => \E o \in Unmatched(s, paired.pairs, c) :
                     /\ <<o, c>> \in paired.pairs
                     /\ \A x \in Unmatched(s, paired.pairs, c) : x <= o
           /\ \A p \in paired.pairs, q \in paired.pairs :
                p[1] = q[1] => p = q

\* C29: the open order issued on confirmation carries the decision of the
\* confirming cycle (its stop loss and take profit), not the decision stored
\* with the pending record; the ledger row is written from the same decision.
C29_OpenCarriesConfirmingDecision ==
    [][\A c \in Coins :
         (EntryStep(c) /\ issued' # <<>>)
         => /\ issued'[1].decision = decision'
            /\ issued'[1].accepted
               => /\ ledger'[Len(ledger')].stop_loss_price = decision'.stop_loss
                  /\ ledger'[Len(ledger')].take_profit_price = decision'.take_profit]_vars

C29_Witness ==
    /\ pc = "idle"
    /\ issued # <<>>
    /\ issued[1].accepted
    /\ issued[1].decision.stop_loss # issued[1].pending.decision.stop_loss

\* C30: reconcile closes no OPEN row whose symbol is among the positions the
\* venue reported; with positions in two symbols both rows stay OPEN.
C30_ReconcileKeepsHeldRows ==
    [][ReconcileRan
       => \A i \in 1..Len(ledger) :
            (/\ ledger[i].status = "OPEN"
             /\ \E k \in 1..Len(all_positions) :
                  all_positions[k].symbol = ledger[i].symbol)
            => ledger'[i].status = "OPEN"]_vars

\* the decision step is taken with a CLOSE signal for coin c
CloseStep(c) ==
    /\ pc = "decide"
    /\ pc' = "idle"
    /\ decision'.signal = "CLOSE"
    /\ decision'.symbol.coin = c

\* C31: a CLOSE signal for a symbol changes only ledger rows of that symbol,
\* whatever trade id the orchestrator tracks.
C31_CloseTouchesOnlyItsSymbol ==
    [][\A c \in Coins :
         CloseStep(c)
         => \A i \in 1..Len(ledger) :
              ledger'[i] # ledger[i] => ledger[i].symbol.coin = c]_vars

\* C32: when a CLOSE signal for a symbol was executed on the venue, the ledger
\* holds no OPEN row of that symbol at the end of the cycle, also when no trade
\* id is tracked.
C32_CloseLeavesNoOpenRow ==
    [][\A c \in Coins :
         (CloseStep(c) /\ venue[c] # "none" /\ venue'[c] = "none")
         => \A i \in 1..Len(ledger') :
              ledger'[i].symbol.coin = c => ledger'[i].status # "OPEN"]_vars

\* C33: a cycle in which the gate withholds an entry signal leaves the tracked
\* trade id as it was; the tracked id changes only in a step that opens or
\* closes a position.
C33_WithheldKeepsTradeId ==
    [][/\ \A c \in Coins :
            (EntryStep(c) /\ outcome' = "done" /\ issued' = <<>>)
            => current_trade_id' = current_trade_id
       /\ current_trade_id' # current_trade_id
          => (venue' # venue \/ ledger' # ledger)]_vars

\* C34: the exit price, close time and realized_pnl of a CLOSED row never
\* change again.
C34_ClosedRowFrozen ==
    [][\A i \in 1..Len(ledger) :
         ledger[i].status = "CLOSED"
         => /\ ledger'[i].exit_price = ledger[i].exit_price
            /\ ledger'[i].close_time = ledger[i].close_time
            /\ ledger'[i].realized_pnl = ledger[i].realized_pnl]_vars

\* C35: the decision step adds an OPEN row to the ledger exactly when the
\* venue accepted an opening order in it: no row for a refused order, no
\* accepted order without a row.
C35_RowIffAccepted ==
    [][(pc = "decide" /\ pc' # "decide")
       => ((\E k \in 1..Len(issued') : issued'[k].accepted)
           <=> /\ Len(ledger') = Len(ledger) + 1
               /\ ledger'[Len(ledger')].status = "OPEN")]_vars

\* C36: the skip count always lies between 0 and max_skip; a cycle that
\* begins with a positive skip count is skipped and takes exactly one off it,
\* a cycle that begins with skip count 0 runs in full; so at most max_skip
\* cycles in a row are skipped.
C36_SkipBounded ==
    /\ skip_cycles \in 0..config.backoff_max_skip
    /\ [][/\ skip_cycles' \in 0..config.backoff_max_skip
          /\ (pc = "idle" /\ cycle_count' = cycle_count + 1)
             => IF skip_cycles > 0
                THEN skip_cycles' = skip_cycles - 1 /\ pc' = "idle"
                ELSE skip_cycles' = 0 /\ pc' = "market"]_vars

\* a skipped cycle that used up the skip count
C36_Witness ==
    /\ pc = "idle"
    /\ outcome = "skipped"
    /\ skip_cycles = 0
    /\ consecutive_holds = config.backoff_threshold

\* C37: an entry signal for one symbol leaves the pending record of every
\* other symbol as it was: none created, confirmed, replaced or removed.
C37_OtherSymbolsPendingKept ==
    [][\A c \in Coins :
         EntryStep(c)
         => \A b \in Coins \ {c} :
              /\ (b \in DOMAIN pending_open_decisions')
                 <=> (b \in DOMAIN pending_open_decisions)
              /\ b \in DOMAIN pending_open_decisions
                 => pending_open_decisions'[b] = pending_open_decisions[b]]_vars

\* an open was confirmed for one symbol while another symbol's record, stored
\* in an earlier cycle, is still pending
C37_Witness ==
    /\ pc = "idle"
    /\ issued # <<>>
    /\ \E b \in DOMAIN pending_open_decisions :
         /\ b # issued[1].symbol.coin
         /\ pending_open_decisions[b].cycle < cycle_count

\* C38: in one pass of the fill synchroniser every ledger row is closed by at
\* most one closing fill, and the count of the pass is the number of rows it
\* changed.
C38_CountIsRowsClosed ==
    [][FillSyncRan
       => /\ Len(ledger') = Len(ledger)
          /\ synced_count' = Cardinality({i \in 1..Len(ledger) : ledger'[i] # ledger[i]})]_vars

\* a pass has handled two closing fills for the same OPEN row
C38_Witness ==
    /\ pc = "reconcile"
    /\ \E c \in Coins, i \in 1..Len(ledger) :
         /\ Len(fetched_orders[c]) = 2
         /\ ledger[i].status = "OPEN"
         /\ ClosingFillFor(fetched_orders[c][1], ledger[i], c)
         /\ ClosingFillFor(fetched_orders[c][2], ledger[i], c)

\* C39: in one call of the fill synchroniser a venue failure for one symbol
\* does not keep the fills of the other symbols from being processed.
C39_FailedSymbolSkippedOnly ==
    [][FillSyncRan
       => \A c \in Coins :
            fetched_orders'[c] # FetchError
            => c \in sync_filled_orders_from_api(ledger, fetched_orders').processed]_vars

\* the first symbol failed and the fills of the second were walked
C39_Witness ==
    /\ pc = "reconcile"
    /\ fetched_orders["BTC"] = FetchError
    /\ fetched_orders["ETH"] # FetchError
    /\ fetched_orders["ETH"] # <<>>

====
